---- MODULE Spec2Model ----
(***************************************************************************)
(* A state-machine model of onnxToTrtCtx                                   *)
(* (src/operator/subgraph/tensorrt/onnx_to_tensorrt.cc).                   *)
(*                                                                         *)
(* One call of onnxToTrtCtx runs on the calling thread, one location (pc)  *)
(* per statement group of the function.  Both compile-time variants are    *)
(* modelled: "config" is the NV_TENSORRT_MAJOR > 6 branch (lines 123-162), *)
(* "legacy" the #else branch (lines 164-195).  The task handed to          *)
(* std::async runs on its own thread (bgpc).  The backend (TensorRT, the   *)
(* ONNX parser, protobuf), the device and the calibrator are the           *)
(* environment: their answers are nondeterministic, and an answer that is  *)
(* a property of the model bytes is fixed once it has been given (env).    *)
(*                                                                         *)
(* std::async is called with the default launch policy; the model takes    *)
(* the asynchronous execution the comment on line 156 asks for.            *)
(***************************************************************************)
EXTENDS Integers, Sequences, FiniteSets, TLC

\* ---------------------------------------------------------------- bounds
MaxNodes == 1
MaxErrors == 2
MaxBatches == 2

\* ------------------------------------------------------------- constants
\* nvinfer1::ILogger::Severity::kINFO (kINTERNAL_ERROR = 0 ... kVERBOSE = 4)
kINFO == 3
\* error->node() of a record that names no node
kUnknownNode == -1
\* a null pointer, here a null ICudaEngine*
NullPtr == 0
\* the builder's batch ceiling and workspace budget before they are set
Unset == -1

Variants == {"config", "legacy"}
BatchSizes == {2}
WorkspaceSizes == {3}
Severities == {kINFO - 1, kINFO}

\* parsed_model.graph(): the nodes, each by whether its output list is
\* non-empty (all the function reads of a node besides its text)
Graphs == UNION {[1..n -> BOOLEAN] : n \in 0..MaxNodes}
\* the values error->node() can take: unknown, in range, and past the end
\* of every graph
NodeIndexes == kUnknownNode..MaxNodes

VARIABLES
  variant,      \* which #if branch was compiled
  args,         \* the arguments of the call
  device,       \* platformHasFastFp16 / platformHasFastInt8 of the device
  env,          \* answers of the backend still open: sets of possible answers
  cal,          \* the caller's TRTInt8Calibrator object
  callNo,       \* 1: the call; 2: the same call made again without
                \* calibrator; 3: the same call made in the other variant
  first,        \* what call 1 ended with
  pc,           \* location of the calling thread
  outcome,      \* "running", "returned", or the error the call ended with
  calibrator,   \* the local pointer `calibrator` is non-null
  parsed_model, \* the graph ParseFromString populated
  nerror,       \* trt_parser->getNbErrors()
  i,            \* the loop index of the report loop
  cerr,         \* lines written to cerr
  warnings,     \* LOG(WARNING) lines
  parseCalls,   \* invocations of trt_parser->parse
  probes,       \* capability probes made
  cfg,          \* batch ceiling, workspace, flags, attached calibrator
  owner,        \* the thread holding trt_builder, trt_network, builder_config
  builds,       \* the build steps invoked, in order
  trt_engine,   \* the primary engine (NullPtr: none)
  future,       \* future_int8_engine
  bgpc,         \* location of the std::async task
  checked,      \* what line 152 / 187 saw: "no", "empty" or "populated"
  cacheAtEntry, \* the calibrator's cache was empty when the call began
  calEntry,     \* the calibrator object as it was when the call began
  observed      \* what the caller got from future_int8_engine.get()

vars == <<variant, args, device, env, cal, callNo, first, pc, outcome,
          calibrator, parsed_model, nerror, i, cerr, warnings, parseCalls,
          probes, cfg, owner, builds, trt_engine, future, bgpc, checked,
          cacheAtEntry, calEntry, observed>>

\* ------------------------------------------------------------ initial state
EmptyFuture == [state |-> "empty", engine |-> NullPtr]

FreshConfig ==
  [maxBatch |-> Unset, workspace |-> Unset, fp16 |-> FALSE, debug |-> FALSE,
   int8 |-> FALSE, calib |-> FALSE]

NoFirst ==
  [valid |-> FALSE, outcome |-> "running", builds |-> <<>>,
   pendingEmpty |-> TRUE, engine |-> NullPtr, done |-> FALSE]

\* the locals on entry of onnxToTrtCtx (lines 78-86, 121)
CallEntry(withCalibrator) ==
  /\ pc = "validate"
  /\ outcome = "running"
  /\ calibrator = withCalibrator
  /\ parsed_model = <<>>
  /\ nerror = 0
  /\ i = 0
  /\ cerr = <<>>
  /\ warnings = <<>>
  /\ parseCalls = 0
  /\ probes = <<>>
  /\ cfg = FreshConfig
  /\ owner = "main"
  /\ builds = <<>>
  /\ trt_engine = NullPtr
  /\ future = EmptyFuture
  /\ bgpc = "idle"
  /\ checked = "no"

Init ==
  /\ variant \in Variants
  /\ args \in [fp16_mode : BOOLEAN, max_batch_size : BatchSizes,
               max_workspace_size : WorkspaceSizes, calibrator : BOOLEAN,
               verbosity : Severities, debug_builder : BOOLEAN]
  /\ device \in [hasFp16 : BOOLEAN, hasInt8 : BOOLEAN]
  /\ env = [validOk |-> BOOLEAN, backendOk |-> BOOLEAN, primaryOk |-> BOOLEAN,
            graph |-> Graphs]
  /\ cal \in [cacheEmpty : BOOLEAN, done : {FALSE}, batchesLeft : 0..MaxBatches]
  \* no calibrator, or one whose cache is populated: its batches play no part
  /\ (~args.calibrator => cal.cacheEmpty)
  /\ (~args.calibrator \/ ~cal.cacheEmpty => cal.batchesLeft = 0)
  /\ callNo = 1
  /\ first = NoFirst
  /\ cacheAtEntry = cal.cacheEmpty
  /\ calEntry = cal
  /\ observed = "none"
  /\ CallEntry(args.calibrator)

\* ------------------------------------------------- parsing (lines 86-119)
\* `throw dmlc::Error(...)` and every other abnormal end of the call
Throw(err) ==
  /\ outcome' = err
  /\ pc' = "done"

\* Validate with the result of ParseFromString ignored: no throw on line 90
Validate_ResultIgnored ==
  /\ pc = "validate"
  /\ \E ok \in env.validOk :
       \E g \in IF ok THEN env.graph ELSE {<<>>} :
         /\ parsed_model' = g
         /\ env' = IF ok
                   THEN [env EXCEPT !.validOk = {ok}, !.graph = {g}]
                   ELSE [env EXCEPT !.validOk = {ok}]
         /\ pc' = "parse"
  /\ UNCHANGED <<variant, cacheAtEntry, calEntry, observed, checked, args,
                 device, cal, callNo, first, outcome, calibrator, nerror, i,
                 cerr, warnings, parseCalls, probes, cfg, owner, builds,
                 trt_engine, future, bgpc>>

\* lines 89-91: parsed_model.ParseFromString(onnx_model)
Validate ==
  /\ pc = "validate"
  /\ \E ok \in env.validOk :
       IF ok
       THEN \E g \in env.graph :
              /\ parsed_model' = g
              /\ env' = [env EXCEPT !.validOk = {ok}, !.graph = {g}]
              /\ pc' = "parse"
              /\ UNCHANGED outcome
       ELSE /\ env' = [env EXCEPT !.validOk = {ok}]
            /\ Throw("MalformedModel")
            /\ UNCHANGED parsed_model
  /\ UNCHANGED <<variant, cacheAtEntry, calEntry, observed, checked, args,
                 device, cal, callNo, first, calibrator, nerror, i, cerr,
                 warnings, parseCalls, probes, cfg, owner, builds, trt_engine,
                 future, bgpc>>

\* lines 92-93: trt_parser->parse(...), and getNbErrors() when it fails
BackendParse ==
  /\ pc = "parse"
  /\ parseCalls' = parseCalls + 1
  /\ \E ok \in env.backendOk :
       /\ env' = [env EXCEPT !.backendOk = {ok}]
       /\ IF ok
          THEN /\ pc' = "batch"
               /\ UNCHANGED <<nerror, i>>
          ELSE /\ pc' = "report"
               /\ nerror' \in 0..MaxErrors
               /\ i' = 0
  /\ UNCHANGED <<variant, cacheAtEntry, calEntry, observed, checked, args,
                 device, cal, callNo, first, outcome, calibrator,
                 parsed_model, cerr, warnings, probes, cfg, owner, builds,
                 trt_engine, future, bgpc>>

\* line 96: the only guard in front of graph().node(error->node())
NodeKnown(node) == node # kUnknownNode

\* the precondition of RepeatedPtrField::Get, which line 98 calls unchecked
InRange(node) == node >= 0 /\ node < Len(parsed_model)

\* line 101: !node.output().empty()
HasOutput(node) == parsed_model[node + 1]

\* lines 105-106: verbosity >= kINFO
DumpsNode == args.verbosity >= kINFO

Line(kind, rec, node, out) ==
  [kind |-> kind, rec |-> rec, node |-> node, out |-> out]

\* lines 96-116: what one pass of the loop body writes for record `rec`
\* whose node index is `node` and whose node has an output iff `out`
ReportLines(rec, node, out) ==
  (IF NodeKnown(node)
   THEN <<Line("node", rec, node, out)>>
        \o (IF DumpsNode THEN <<Line("dump", rec, node, out)>> ELSE <<>>)
   ELSE <<>>)
  \o <<Line("error", rec, node, FALSE)>>

\* lines 94-117: one pass of the report loop.  graph().node(index) with an
\* index outside the repeated field is undefined behaviour: the process
\* dies, or some memory is read as a node.
ReportError ==
  /\ pc = "report"
  /\ i < nerror
  /\ \E node \in NodeIndexes :
       IF NodeKnown(node) /\ ~InRange(node)
       THEN \E crash \in BOOLEAN :
              IF crash
              THEN /\ Throw("crashed")
                   /\ UNCHANGED <<cerr, i>>
              ELSE /\ \E garbage \in BOOLEAN :
                        cerr' = cerr \o ReportLines(i, node, garbage)
                   /\ i' = i + 1
                   /\ UNCHANGED <<pc, outcome>>
       ELSE /\ cerr' = cerr \o ReportLines(i, node,
                         IF NodeKnown(node) THEN HasOutput(node) ELSE FALSE)
            /\ i' = i + 1
            /\ UNCHANGED <<pc, outcome>>
  /\ UNCHANGED <<variant, cacheAtEntry, calEntry, observed, checked, args,
                 device, env, cal, callNo, first, calibrator, parsed_model,
                 nerror, warnings, parseCalls, probes, cfg, owner, builds,
                 trt_engine, future, bgpc>>

\* ThrowParse without the throw of line 118: the function falls through
\* to the build
ThrowParse_FallThrough ==
  /\ pc = "report"
  /\ i >= nerror
  /\ pc' = "batch"
  /\ UNCHANGED <<variant, cacheAtEntry, calEntry, observed, checked, args,
                 device, env, cal, callNo, first, outcome, calibrator,
                 parsed_model, nerror, i, cerr, warnings, parseCalls, probes,
                 cfg, owner, builds, trt_engine, future, bgpc>>

\* line 118: throw dmlc::Error("Cannot parse ONNX into TensorRT Engine")
ThrowParse ==
  /\ pc = "report"
  /\ i >= nerror
  /\ Throw("GraphCompileError")
  /\ UNCHANGED <<variant, cacheAtEntry, calEntry, observed, checked, args,
                 device, env, cal, callNo, first, calibrator, parsed_model,
                 nerror, i, cerr, warnings, parseCalls, probes, cfg, owner,
                 builds, trt_engine, future, bgpc>>

\* ----------------------------------------- build configuration (120-184)
\* the statement order of the two branches: the config branch builds the
\* primary engine (138) before the int8 block (140-149), the legacy branch
\* runs the int8 block (175-184) before the build (185)
AfterDebug == IF variant = "config" THEN "build" ELSE "int8"

AfterInt8 == IF variant = "config" THEN "check" ELSE "build"

AfterBuild == IF variant = "config" THEN "int8" ELSE "check"

\* lines 120-121: trt_builder->setMaxBatchSize(max_batch_size)
SetMaxBatchSize ==
  /\ pc = "batch"
  /\ cfg' = [cfg EXCEPT !.maxBatch = args.max_batch_size]
  /\ pc' = "fp16"
  /\ UNCHANGED <<variant, cacheAtEntry, calEntry, observed, checked, args,
                 device, env, cal, callNo, first, outcome, calibrator,
                 parsed_model, nerror, i, cerr, warnings, parseCalls, probes,
                 owner, builds, trt_engine, future, bgpc>>

\* ConfigureFp16 without the capability probe of lines 126 / 165: the flag
\* is set whenever fp16_mode asks for it
ConfigureFp16_Unprobed ==
  /\ pc = "fp16"
  /\ cfg' = [cfg EXCEPT !.fp16 = args.fp16_mode]
  /\ pc' = "workspace"
  /\ UNCHANGED <<variant, cacheAtEntry, calEntry, observed, checked, args,
                 device, env, cal, callNo, first, outcome, calibrator,
                 parsed_model, nerror, i, cerr, warnings, parseCalls, probes,
                 owner, builds, trt_engine, future, bgpc>>

\* lines 125-131 and 164-170
ConfigureFp16 ==
  /\ pc = "fp16"
  /\ IF args.fp16_mode
     THEN /\ probes' = Append(probes, "fp16")
          /\ IF device.hasFp16
             THEN /\ cfg' = [cfg EXCEPT !.fp16 = TRUE]
                  /\ UNCHANGED warnings
             ELSE /\ warnings' = Append(warnings, "fp16")
                  /\ UNCHANGED cfg
     ELSE UNCHANGED <<probes, cfg, warnings>>
  /\ pc' = "workspace"
  /\ UNCHANGED <<variant, cacheAtEntry, calEntry, observed, checked, args,
                 device, env, cal, callNo, first, outcome, calibrator,
                 parsed_model, nerror, i, cerr, parseCalls, owner, builds,
                 trt_engine, future, bgpc>>

\* SetMaxWorkspaceSize placed inside the fp16 branch: the budget is set
\* only when fp16_mode was requested
SetMaxWorkspaceSize_OnlyFp16 ==
  /\ pc = "workspace"
  /\ cfg' = IF args.fp16_mode
            THEN [cfg EXCEPT !.workspace = args.max_workspace_size]
            ELSE cfg
  /\ pc' = "debug"
  /\ UNCHANGED <<variant, cacheAtEntry, calEntry, observed, checked, args,
                 device, env, cal, callNo, first, outcome, calibrator,
                 parsed_model, nerror, i, cerr, warnings, parseCalls, probes,
                 owner, builds, trt_engine, future, bgpc>>

\* lines 133 and 172: setMaxWorkspaceSize(max_workspace_size)
SetMaxWorkspaceSize ==
  /\ pc = "workspace"
  /\ cfg' = [cfg EXCEPT !.workspace = args.max_workspace_size]
  /\ pc' = "debug"
  /\ UNCHANGED <<variant, cacheAtEntry, calEntry, observed, checked, args,
                 device, env, cal, callNo, first, outcome, calibrator,
                 parsed_model, nerror, i, cerr, warnings, parseCalls, probes,
                 owner, builds, trt_engine, future, bgpc>>

\* lines 134-136 (setFlag(kDEBUG) if debug_builder) and 173
\* (setDebugSync(debug_builder))
ConfigureDebug ==
  /\ pc = "debug"
  /\ cfg' = [cfg EXCEPT !.debug = args.debug_builder]
  /\ pc' = AfterDebug
  /\ UNCHANGED <<variant, cacheAtEntry, calEntry, observed, checked, args,
                 device, env, cal, callNo, first, outcome, calibrator,
                 parsed_model, nerror, i, cerr, warnings, parseCalls, probes,
                 owner, builds, trt_engine, future, bgpc>>

\* ConfigureInt8 that forgets line 147 / 182: on a device without int8
\* support the local pointer is left non-null
ConfigureInt8_KeepsPointer ==
  /\ pc = "int8"
  /\ IF calibrator
     THEN /\ probes' = Append(probes, "int8")
          /\ IF device.hasInt8
             THEN /\ cfg' = [cfg EXCEPT !.int8 = TRUE, !.calib = TRUE]
                  /\ UNCHANGED <<warnings, cal, calibrator>>
             ELSE /\ warnings' = Append(warnings, "int8")
                  /\ cal' = [cal EXCEPT !.done = TRUE]
                  /\ UNCHANGED <<cfg, calibrator>>
     ELSE UNCHANGED <<probes, cfg, warnings, cal, calibrator>>
  /\ pc' = AfterInt8
  /\ UNCHANGED <<variant, cacheAtEntry, calEntry, observed, checked, args,
                 device, env, callNo, first, outcome, parsed_model, nerror, i,
                 cerr, parseCalls, owner, builds, trt_engine, future, bgpc>>

\* lines 140-149 and 175-184
ConfigureInt8 ==
  /\ pc = "int8"
  /\ IF calibrator
     THEN /\ probes' = Append(probes, "int8")
          /\ IF device.hasInt8
             THEN /\ cfg' = [cfg EXCEPT !.int8 = TRUE, !.calib = TRUE]
                  /\ UNCHANGED <<warnings, cal, calibrator>>
             ELSE /\ warnings' = Append(warnings, "int8")
                  /\ cal' = [cal EXCEPT !.done = TRUE]
                  /\ calibrator' = FALSE
                  /\ UNCHANGED cfg
     ELSE UNCHANGED <<probes, cfg, warnings, cal, calibrator>>
  /\ pc' = AfterInt8
  /\ UNCHANGED <<variant, cacheAtEntry, calEntry, observed, checked, args,
                 device, env, callNo, first, outcome, parsed_model, nerror, i,
                 cerr, parseCalls, owner, builds, trt_engine, future, bgpc>>

\* ------------------------------------------------ engine builds (138-198)
\* The backend's build step as lines 156-157 describe it: with the int8
\* flag set, a calibrator attached and no calibration cache, the build runs
\* the calibration loop, calling the calibrator until it returns false.
NeedsCalibration(c) == c.int8 /\ c.calib /\ cal.cacheEmpty

\* the calibrator has another batch to give
BatchAvailable == ~cal.done /\ cal.batchesLeft > 0

\* one invocation of buildEngineWithConfig / buildCudaEngine by thread `by`,
\* with the configuration it finds
BuildRecord(by) ==
  [by |-> by, cfg |-> cfg, calibrated |-> NeedsCalibration(cfg),
   requests |-> 0, result |-> "running"]

\* InferObject (onnx_to_tensorrt.h): wraps a backend pointer and throws on
\* a null one
InferObject(obj) ==
  IF obj = NullPtr
  THEN [thrown |-> TRUE, ptr |-> NullPtr]
  ELSE [thrown |-> FALSE, ptr |-> obj]

\* the calibration cache after a build: a build that calibrated and
\* succeeded hands its table to writeCalibrationCache, and the calibrator
\* keeps it or not
CachesAfter(calibrated, ok) ==
  IF calibrated /\ ok THEN BOOLEAN ELSE {cal.cacheEmpty}

\* lines 138 and 185: the calling thread enters the build step
PrimaryBuildStart ==
  /\ pc = "build"
  /\ builds' = Append(builds, BuildRecord("main"))
  /\ pc' = IF NeedsCalibration(cfg) THEN "calibrate" ELSE "compile"
  /\ UNCHANGED <<variant, cacheAtEntry, calEntry, observed, checked, args,
                 device, env, cal, callNo, first, outcome, calibrator,
                 parsed_model, nerror, i, cerr, warnings, parseCalls, probes,
                 cfg, owner, trt_engine, future, bgpc>>

\* the calibration loop inside the build step of the calling thread
PrimaryGetBatch ==
  /\ pc = "calibrate"
  /\ builds' = [builds EXCEPT ![Len(builds)].requests = @ + 1]
  /\ IF BatchAvailable
     THEN /\ cal' = [cal EXCEPT !.batchesLeft = @ - 1]
          /\ UNCHANGED pc
     ELSE /\ pc' = "compile"
          /\ UNCHANGED cal
  /\ UNCHANGED <<variant, cacheAtEntry, calEntry, observed, checked, args,
                 device, env, callNo, first, outcome, calibrator,
                 parsed_model, nerror, i, cerr, warnings, parseCalls, probes,
                 cfg, owner, trt_engine, future, bgpc>>

\* PrimaryCompile with the backend's pointer taken as it comes, without
\* InferObject: a null engine is kept and the call goes on
PrimaryCompile_Unwrapped ==
  /\ pc = "compile"
  /\ \E ok \in env.primaryOk :
       LET k == Len(builds)
       IN /\ env' = [env EXCEPT !.primaryOk = {ok}]
          /\ builds' = [builds EXCEPT
                          ![k].result = IF ok THEN "engine" ELSE "null"]
          /\ \E empty \in CachesAfter(builds[k].calibrated, ok) :
               cal' = [cal EXCEPT !.cacheEmpty = empty]
          /\ trt_engine' = IF ok THEN k ELSE NullPtr
          /\ pc' = AfterBuild
  /\ UNCHANGED <<variant, cacheAtEntry, calEntry, observed, checked, args,
                 device, callNo, first, outcome, calibrator, parsed_model,
                 nerror, i, cerr, warnings, parseCalls, probes, cfg, owner,
                 future, bgpc>>

\* lines 138 and 185: the build step returns and InferObject wraps its
\* result
PrimaryCompile ==
  /\ pc = "compile"
  /\ \E ok \in env.primaryOk :
       LET k == Len(builds)
           r == InferObject(IF ok THEN k ELSE NullPtr)
       IN /\ env' = [env EXCEPT !.primaryOk = {ok}]
          /\ builds' = [builds EXCEPT
                          ![k].result = IF ok THEN "engine" ELSE "null"]
          /\ \E empty \in CachesAfter(builds[k].calibrated, ok) :
               cal' = [cal EXCEPT !.cacheEmpty = empty]
          /\ IF r.thrown
             THEN /\ Throw("EngineBuildFailed")
                  /\ UNCHANGED trt_engine
             ELSE /\ trt_engine' = r.ptr
                  /\ pc' = AfterBuild
                  /\ UNCHANGED outcome
  /\ UNCHANGED <<variant, cacheAtEntry, calEntry, observed, checked, args,
                 device, callNo, first, calibrator, parsed_model, nerror, i,
                 cerr, warnings, parseCalls, probes, cfg, owner, future,
                 bgpc>>

\* the test of lines 152 / 187 without `calibrator != nullptr`
InCalibrationMode_NullUnchecked == cal.cacheEmpty

\* the test of lines 152 / 187 with isCacheEmpty() inverted
InCalibrationMode_Inverted == calibrator /\ ~cal.cacheEmpty

\* lines 152 and 187: calibrator != nullptr && calibrator->isCacheEmpty()
InCalibrationMode == calibrator /\ cal.cacheEmpty

\* ScheduleCalibration after which the calling thread goes back to set the
\* debug flag on the configuration it has just moved into the task
ScheduleCalibration_ThenDebug ==
  /\ pc = "check"
  /\ IF InCalibrationMode
     THEN /\ future' = [state |-> "pending", engine |-> NullPtr]
          /\ owner' = "bg"
          /\ bgpc' = "start"
          /\ pc' = "debug"
     ELSE /\ UNCHANGED <<future, owner, bgpc>>
          /\ pc' = "ret"
  /\ checked' = IF ~calibrator THEN "no"
                ELSE IF cal.cacheEmpty THEN "empty" ELSE "populated"
  /\ UNCHANGED <<variant, calEntry, observed, cacheAtEntry, args, device,
                 env, cal, callNo, first, outcome, calibrator,
                 parsed_model, nerror, i, cerr, warnings, parseCalls,
                 probes, cfg, builds, trt_engine>>

\* lines 152-162 and 187-195: std::async moves the builder, the network and
\* the configuration into the task
ScheduleCalibration ==
  /\ pc = "check"
  /\ IF InCalibrationMode
     THEN /\ future' = [state |-> "pending", engine |-> NullPtr]
          /\ owner' = "bg"
          /\ bgpc' = "start"
     ELSE UNCHANGED <<future, owner, bgpc>>
  /\ checked' = IF ~calibrator THEN "no"
                ELSE IF cal.cacheEmpty THEN "empty" ELSE "populated"
  /\ pc' = "ret"
  /\ UNCHANGED <<variant, cacheAtEntry, calEntry, observed, args, device, env,
                 cal, callNo, first, outcome, calibrator, parsed_model,
                 nerror, i, cerr, warnings, parseCalls, probes, cfg, builds,
                 trt_engine>>

\* Return that marks the calibrator done on the way out
Return_MarksDone ==
  /\ pc = "ret"
  /\ outcome' = "returned"
  /\ pc' = "done"
  /\ cal' = IF calibrator THEN [cal EXCEPT !.done = TRUE] ELSE cal
  /\ UNCHANGED <<variant, calEntry, observed, cacheAtEntry, checked, args,
                 device, env, callNo, first, calibrator, parsed_model,
                 nerror, i, cerr, warnings, parseCalls, probes, cfg, owner,
                 builds, trt_engine, future, bgpc>>

\* lines 197-198: return std::make_tuple(...)
Return ==
  /\ pc = "ret"
  /\ outcome' = "returned"
  /\ pc' = "done"
  /\ UNCHANGED <<variant, cacheAtEntry, calEntry, observed, checked, args,
                 device, env, cal, callNo, first, calibrator, parsed_model,
                 nerror, i, cerr, warnings, parseCalls, probes, cfg, owner,
                 builds, trt_engine, future, bgpc>>

\* ---------------------------------- the std::async task (153-161, 188-194)
\* lines 158 and 192: the task enters the build step
BgBuildStart ==
  /\ bgpc = "start"
  /\ builds' = Append(builds, BuildRecord("bg"))
  /\ bgpc' = IF NeedsCalibration(cfg) THEN "calibrate" ELSE "compile"
  /\ UNCHANGED <<variant, cacheAtEntry, calEntry, observed, checked, args,
                 device, env, cal, callNo, first, pc, outcome, calibrator,
                 parsed_model, nerror, i, cerr, warnings, parseCalls, probes,
                 cfg, owner, trt_engine, future>>

\* BgGetBatch that never sees the exhaustion: once the calibrator has no
\* batch left the task waits for one forever
BgGetBatch_WaitsForever ==
  /\ bgpc = "calibrate"
  /\ BatchAvailable
  /\ builds' = [builds EXCEPT ![Len(builds)].requests = @ + 1]
  /\ cal' = [cal EXCEPT !.batchesLeft = @ - 1]
  /\ UNCHANGED <<variant, cacheAtEntry, calEntry, observed, checked, args,
                 device, env, callNo, first, pc, outcome, calibrator,
                 parsed_model, nerror, i, cerr, warnings, parseCalls, probes,
                 cfg, owner, trt_engine, future, bgpc>>

\* lines 156-157: the calibration loop of the task's build step
BgGetBatch ==
  /\ bgpc = "calibrate"
  /\ builds' = [builds EXCEPT ![Len(builds)].requests = @ + 1]
  /\ IF BatchAvailable
     THEN /\ cal' = [cal EXCEPT !.batchesLeft = @ - 1]
          /\ UNCHANGED bgpc
     ELSE /\ bgpc' = "compile"
          /\ UNCHANGED cal
  /\ UNCHANGED <<variant, cacheAtEntry, calEntry, observed, checked, args,
                 device, env, callNo, first, pc, outcome, calibrator,
                 parsed_model, nerror, i, cerr, warnings, parseCalls, probes,
                 cfg, owner, trt_engine, future>>

\* BgCompile whose lambda returns the build result without InferObject: a
\* failed build resolves the handle normally, to a null engine
BgCompile_Unwrapped ==
  /\ bgpc = "compile"
  /\ \E ok \in BOOLEAN :
       LET k == Len(builds)
       IN /\ builds' = [builds EXCEPT
                          ![k].result = IF ok THEN "engine" ELSE "null"]
          /\ \E empty \in CachesAfter(builds[k].calibrated, ok) :
               cal' = [cal EXCEPT !.cacheEmpty = empty]
          /\ future' = [state |-> "value",
                        engine |-> IF ok THEN k ELSE NullPtr]
  /\ bgpc' = "finished"
  /\ UNCHANGED <<variant, calEntry, observed, cacheAtEntry, checked, args,
                 device, env, callNo, first, pc, outcome, calibrator,
                 parsed_model, nerror, i, cerr, warnings, parseCalls,
                 probes, cfg, owner, trt_engine>>

\* lines 158-160 and 192-193: the build step returns; the task's result,
\* or the exception InferObject threw, becomes the future's shared state
BgCompile ==
  /\ bgpc = "compile"
  /\ \E ok \in BOOLEAN :
       LET k == Len(builds)
           r == InferObject(IF ok THEN k ELSE NullPtr)
       IN /\ builds' = [builds EXCEPT
                          ![k].result = IF ok THEN "engine" ELSE "null"]
          /\ \E empty \in CachesAfter(builds[k].calibrated, ok) :
               cal' = [cal EXCEPT !.cacheEmpty = empty]
          /\ future' = IF r.thrown
                       THEN [state |-> "exception", engine |-> NullPtr]
                       ELSE [state |-> "value", engine |-> r.ptr]
  /\ bgpc' = "finished"
  /\ UNCHANGED <<variant, cacheAtEntry, calEntry, observed, checked, args,
                 device, env, callNo, first, pc, outcome, calibrator,
                 parsed_model, nerror, i, cerr, warnings, parseCalls, probes,
                 cfg, owner, trt_engine>>

\* ------------------------------------------------------------ the caller
\* the caller makes a call that got past parsing again, this time without a
\* calibrator
CallAgain ==
  /\ pc = "done"
  /\ callNo = 1
  /\ args.calibrator
  /\ outcome \in {"returned", "EngineBuildFailed"}
  /\ bgpc \in {"idle", "finished"}
  /\ first' = [valid |-> TRUE, outcome |-> outcome, builds |-> builds,
               pendingEmpty |-> (future.state = "empty"),
               engine |-> trt_engine, done |-> cal.done]
  /\ callNo' = 2
  /\ args' = [args EXCEPT !.calibrator = FALSE]
  /\ pc' = "validate"
  /\ outcome' = "running"
  /\ calibrator' = FALSE
  /\ parsed_model' = <<>>
  /\ nerror' = 0
  /\ i' = 0
  /\ cerr' = <<>>
  /\ warnings' = <<>>
  /\ parseCalls' = 0
  /\ probes' = <<>>
  /\ cfg' = FreshConfig
  /\ owner' = "main"
  /\ builds' = <<>>
  /\ trt_engine' = NullPtr
  /\ future' = EmptyFuture
  /\ bgpc' = "idle"
  /\ checked' = "no"
  /\ cacheAtEntry' = cal.cacheEmpty
  /\ calEntry' = cal
  /\ observed' = "none"
  /\ UNCHANGED <<variant, device, env, cal>>

\* the caller, holding the tuple the call returned, waits for the pending
\* handle and takes its result: the second engine, or the stored exception
\* rethrown by get()
Observe ==
  /\ pc = "done"
  /\ outcome = "returned"
  /\ future.state \in {"value", "exception"}
  /\ observed' = IF future.state = "exception" THEN "failure" ELSE "engine"
  /\ future' = [future EXCEPT !.state = "retrieved"]
  /\ UNCHANGED <<variant, calEntry, cacheAtEntry, checked, args, device,
                 env, cal, callNo, first, pc, outcome, calibrator,
                 parsed_model, nerror, i, cerr, warnings, parseCalls,
                 probes, cfg, owner, builds, trt_engine, bgpc>>

\* the other #if branch
OtherVariant == IF variant = "config" THEN "legacy" ELSE "config"

\* the caller makes a call that got past parsing again, with the same
\* arguments, the same device and a calibrator in the state it had before
\* the call, against the library compiled in the other variant
CallOtherVariant ==
  /\ pc = "done"
  /\ callNo = 1
  /\ outcome \in {"returned", "EngineBuildFailed"}
  /\ bgpc \in {"idle", "finished"}
  /\ first' = [valid |-> TRUE, outcome |-> outcome, builds |-> builds,
               pendingEmpty |-> (future.state = "empty"),
               engine |-> trt_engine, done |-> cal.done]
  /\ callNo' = 3
  /\ variant' = OtherVariant
  /\ cal' = calEntry
  /\ pc' = "validate"
  /\ outcome' = "running"
  /\ calibrator' = args.calibrator
  /\ parsed_model' = <<>>
  /\ nerror' = 0
  /\ i' = 0
  /\ cerr' = <<>>
  /\ warnings' = <<>>
  /\ parseCalls' = 0
  /\ probes' = <<>>
  /\ cfg' = FreshConfig
  /\ owner' = "main"
  /\ builds' = <<>>
  /\ trt_engine' = NullPtr
  /\ future' = EmptyFuture
  /\ bgpc' = "idle"
  /\ checked' = "no"
  /\ observed' = "none"
  /\ UNCHANGED <<args, device, env, calEntry, cacheAtEntry>>

\* ------------------------------------------------------- specifications
MainStep ==
  \/ Validate
  \/ BackendParse
  \/ ReportError
  \/ ThrowParse
  \/ SetMaxBatchSize
  \/ ConfigureFp16
  \/ SetMaxWorkspaceSize
  \/ ConfigureDebug
  \/ ConfigureInt8
  \/ PrimaryBuildStart
  \/ PrimaryGetBatch
  \/ PrimaryCompile
  \/ ScheduleCalibration
  \/ Return

BgStep ==
  \/ BgBuildStart
  \/ BgGetBatch
  \/ BgCompile

Next == MainStep \/ BgStep \/ Observe \/ CallAgain \/ CallOtherVariant

Spec == Init /\ [][Next]_vars

\* the threads of the process are scheduled fairly
FairSpec == Spec /\ WF_vars(MainStep) /\ WF_vars(BgStep)

\* ------------------------------------------------------------ the claims
\* the validation pass or the backend parser has rejected the model
Rejected == env.validOk = {FALSE} \/ env.backendOk = {FALSE}

\* no build step was invoked, no engine exists, nothing is pending
NoEngineWork ==
  /\ builds = <<>>
  /\ trt_engine = NullPtr
  /\ future = EmptyFuture
  /\ bgpc = "idle"
  /\ owner = "main"

\* C1: once the validation pass or the backend parser has rejected the
\* model, the call never returns normally (it ends in an error), no build
\* step, primary or background, is ever invoked, no engine exists and no
\* pending handle is scheduled.
C1_RejectedModelBuildsNothing ==
  Rejected =>
    /\ NoEngineWork
    /\ outcome # "returned"
    /\ (pc = "done" =>
          outcome \in {"MalformedModel", "GraphCompileError", "crashed"})

\* C1 witness: the backend rejected the model, its records were reported
\* and the call has ended with GraphCompileError
C1_Witness ==
  /\ env.backendOk = {FALSE}
  /\ pc = "done"
  /\ outcome = "GraphCompileError"
  /\ nerror > 0
  /\ Len(cerr) > 0

\* C2: when the validation pass fails the call has failed with
\* MalformedModel without the backend parser being invoked (its answer
\* for the bytes is still open), and no engine work was done.
C2_InvalidModelNeverReachesBackend ==
  env.validOk = {FALSE} =>
    /\ pc = "done"
    /\ outcome = "MalformedModel"
    /\ parseCalls = 0
    /\ env.backendOk = BOOLEAN
    /\ NoEngineWork

\* C2 witness: a call that failed validation
C2_Witness ==
  /\ env.validOk = {FALSE}
  /\ outcome = "MalformedModel"
  /\ parseCalls = 0

\* the call got past both parse steps
Parsed == env.validOk = {TRUE} /\ env.backendOk = {TRUE} /\ parseCalls = 1

\* fp16_mode false, debug_builder false, calibrator null
AllModesOff == ~args.fp16_mode /\ ~args.debug_builder /\ ~args.calibrator

\* the primary build step yielded an engine
PrimaryBuilt ==
  /\ Len(builds) >= 1
  /\ builds[1].by = "main"
  /\ builds[1].result = "engine"

\* C3 as stated: for every model that parses, with fp16_mode false,
\* debug_builder false and no calibrator, the call returns a valid primary
\* engine and an empty pending handle, and exactly one build step is invoked.
C3_Original ==
  (pc = "done" /\ Parsed /\ AllModesOff) =>
    /\ outcome = "returned"
    /\ trt_engine # NullPtr
    /\ future = EmptyFuture
    /\ Len(builds) = 1

\* C3 as amended: for every model that parses, with fp16_mode false,
\* debug_builder false and no calibrator, exactly one build step is invoked,
\* on the calling thread with no precision or debug flag set, and no
\* background build is scheduled; whenever that build step yields an engine
\* the call returns it as a valid primary engine with an empty pending
\* handle.
C3_AllModesOffBuildsOneEngine ==
  (pc = "done" /\ Parsed /\ AllModesOff) =>
    /\ Len(builds) = 1
    /\ builds[1].by = "main"
    /\ ~builds[1].cfg.fp16 /\ ~builds[1].cfg.debug /\ ~builds[1].cfg.int8
    /\ ~builds[1].cfg.calib /\ ~builds[1].calibrated
    /\ future = EmptyFuture
    /\ bgpc = "idle"
    /\ (PrimaryBuilt =>
          /\ outcome = "returned"
          /\ trt_engine = 1)

\* C3 witness: such a call has returned its primary engine
C3_Witness ==
  /\ pc = "done"
  /\ Parsed
  /\ AllModesOff
  /\ callNo = 1
  /\ outcome = "returned"
  /\ trt_engine # NullPtr
  /\ future = EmptyFuture

\* C4: when line 152 / 187 finds the supplied calibrator's cache non-empty,
\* no background build is ever scheduled: exactly one build step has run, on
\* the calling thread, the builder stays with the calling thread, and the
\* call returns with an empty pending handle.
C4_PopulatedCacheSchedulesNothing ==
  checked = "populated" =>
    /\ Len(builds) = 1
    /\ builds[1].by = "main"
    /\ builds[1].result = "engine"
    /\ future = EmptyFuture
    /\ bgpc = "idle"
    /\ owner = "main"
    /\ (pc = "done" => outcome = "returned" /\ trt_engine = 1)

\* C4 witness: a call with a populated cache has returned
C4_Witness ==
  /\ checked = "populated"
  /\ args.calibrator
  /\ pc = "done"
  /\ outcome = "returned"

\* a calibrator with an empty cache is supplied on an int8-capable device
CalibrationRequested == args.calibrator /\ device.hasInt8 /\ cacheAtEntry

\* C5: when a calibrator with an empty cache is supplied on an
\* int8-capable device, the calling thread never runs the calibration loop
\* (no build step of the calling thread requests batches from the
\* calibrator), and its return never waits for the background build.
C5_CallingThreadNeverCalibrates ==
  CalibrationRequested =>
    /\ pc # "calibrate"
    /\ \A k \in 1..Len(builds) :
         builds[k].by = "main" =>
           ~builds[k].calibrated /\ builds[k].requests = 0
    /\ (pc = "ret" => ENABLED Return)

\* the pending handle holds an engine of its own, built by the task
ResolvedToSecondEngine ==
  /\ future.state = "value"
  /\ future.engine # NullPtr
  /\ future.engine # trt_engine
  /\ trt_engine # NullPtr
  /\ builds[future.engine].by = "bg"
  /\ builds[future.engine].result = "engine"

\* the pending handle holds the failure of the task's build
ResolvedToFailure ==
  /\ future.state = "exception"
  /\ builds[Len(builds)].by = "bg"
  /\ builds[Len(builds)].result = "null"

\* C6: under fair scheduling, with a calibrator that signals exhaustion
\* after finitely many batches, a scheduled background build leads to a
\* pending handle resolved to a second engine, distinct from the primary
\* engine and built by the task, or to the failure of that build.
C6_PendingHandleResolves ==
  (future.state = "pending") ~> (ResolvedToSecondEngine \/ ResolvedToFailure)

\* C6 witness: the call has returned and the task, after consuming the
\* calibrator's batches, has resolved the handle to a second engine
C6_Witness ==
  /\ pc = "done"
  /\ outcome = "returned"
  /\ ResolvedToSecondEngine
  /\ builds[future.engine].calibrated
  /\ builds[future.engine].requests > 1

\* no build step of the call saw the int8 flag or an attached calibrator
NoInt8Anywhere ==
  /\ ~cfg.int8
  /\ ~cfg.calib
  /\ \A k \in 1..Len(builds) : ~builds[k].cfg.int8 /\ ~builds[k].cfg.calib

\* C7: when a calibrator is supplied on a device without int8 support and
\* the model parses, the int8 flag is never set, the calibrator is never
\* attached, no background build is scheduled, the calibrator has been
\* marked done when the call ends, and the same call made without a
\* calibrator ends the same way with the same build steps, the same
\* engine and the same pending handle.
C7_NoInt8SupportActsAsNoCalibrator ==
  /\ (callNo = 1 /\ args.calibrator /\ ~device.hasInt8 /\ Parsed) =>
       /\ NoInt8Anywhere
       /\ future = EmptyFuture
       /\ bgpc = "idle"
       /\ (pc = "done" => cal.done)
  /\ (callNo = 2 /\ first.valid /\ ~device.hasInt8 /\ pc = "done") =>
       /\ outcome = first.outcome
       /\ builds = first.builds
       /\ trt_engine = first.engine
       /\ (future = EmptyFuture) = first.pendingEmpty

\* the number of warnings of kind `w` logged by the call
Warned(w) == Cardinality({k \in 1..Len(warnings) : warnings[k] = w})

\* half precision is requested on a device without it, and the model parses
Fp16Downgrade == args.fp16_mode /\ ~device.hasFp16 /\ Parsed

\* no build step of the call saw the half-precision flag
NoFp16Anywhere ==
  /\ ~cfg.fp16
  /\ \A k \in 1..Len(builds) : ~builds[k].cfg.fp16

\* C8 as stated: when half precision is requested on a device without it
\* (and the model parses), the half-precision flag is never set on any
\* build, exactly one warning is emitted for the downgrade and a non-null
\* primary engine is returned.
C8_Original ==
  (pc = "done" /\ Fp16Downgrade) =>
    /\ NoFp16Anywhere
    /\ Warned("fp16") = 1
    /\ outcome = "returned"
    /\ trt_engine # NullPtr

\* C8 as amended: when half precision is requested on a device without it
\* and the model parses, the downgrade does not abort the build: the
\* half-precision flag is never set on any build of the call, exactly one
\* warning is emitted for the downgrade, the primary build step is invoked,
\* and a non-null primary engine is returned whenever that build step
\* yields one.
C8_Fp16DowngradeKeepsBuilding ==
  /\ Fp16Downgrade => NoFp16Anywhere /\ Warned("fp16") <= 1
  /\ (pc = "done" /\ Fp16Downgrade) =>
       /\ Warned("fp16") = 1
       /\ Len(builds) >= 1
       /\ builds[1].by = "main"
       /\ (PrimaryBuilt => outcome = "returned" /\ trt_engine = 1)

\* C8 witness: a downgraded call has returned its engine after one warning
C8_Witness ==
  /\ pc = "done"
  /\ Fp16Downgrade
  /\ outcome = "returned"
  /\ trt_engine # NullPtr
  /\ Warned("fp16") = 1
  /\ probes # <<>>

\* the primary build step yielded no engine
PrimaryFailed ==
  \E k \in 1..Len(builds) :
    builds[k].by = "main" /\ builds[k].result = "null"

\* C9: when the primary build step yields no engine the call has ended
\* with EngineBuildFailed, holding no engine and with no background build
\* scheduled; and a call that returns normally returns a non-null primary
\* engine.
C9_FailedBuildAborts ==
  /\ PrimaryFailed =>
       /\ pc = "done"
       /\ outcome = "EngineBuildFailed"
       /\ trt_engine = NullPtr
       /\ future = EmptyFuture
       /\ bgpc = "idle"
       /\ checked = "no"
  /\ outcome = "returned" => trt_engine # NullPtr /\ ~PrimaryFailed

\* C9 witness: a call whose primary build step failed
C9_Witness ==
  /\ PrimaryFailed
  /\ outcome = "EngineBuildFailed"
  /\ Len(builds) = 1

\* C10: reporting never fails: the process does not die in the loop, no
\* node line comes from an index outside the graph's nodes, output(0) is
\* printed only for a node that has an output, and every record the loop
\* has passed has its ERROR line.
C10_ReportNeverFails ==
  /\ outcome # "crashed"
  /\ \A k \in 1..Len(cerr) :
       cerr[k].kind = "node" =>
         /\ InRange(cerr[k].node)
         /\ (cerr[k].out => HasOutput(cerr[k].node))
  /\ \A r \in 0..(i - 1) :
       \E k \in 1..Len(cerr) : cerr[k].kind = "error" /\ cerr[k].rec = r

\* the ERROR lines written for record `r`
ErrorLines(r) ==
  {k \in 1..Len(cerr) : cerr[k].kind = "error" /\ cerr[k].rec = r}

\* C11: when the backend parser has rejected a valid model and the call
\* has ended, it has ended with GraphCompileError and each of the records
\* 0 .. getNbErrors()-1 was reported exactly once before that (nothing is
\* written after the throw); while the loop runs, no record has been
\* reported twice.
C11_EveryRecordReportedThenThrow ==
  /\ \A r \in 0..(MaxErrors - 1) : Cardinality(ErrorLines(r)) <= 1
  /\ (env.backendOk = {FALSE} /\ pc = "done") =>
       /\ outcome = "GraphCompileError"
       /\ \A r \in 0..(nerror - 1) : Cardinality(ErrorLines(r)) = 1
       /\ \A k \in 1..Len(cerr) : cerr[k].rec < nerror

\* the build step of the std::async task has failed
BackgroundFailed ==
  \E k \in 1..Len(builds) : builds[k].by = "bg" /\ builds[k].result = "null"

\* the primary engine the call built is there, and the call returns it
PrimaryEngineIntact ==
  /\ trt_engine = 1
  /\ builds[1].by = "main"
  /\ builds[1].result = "engine"
  /\ outcome \in {"running", "returned"}
  /\ (pc = "ret" => ENABLED Return)

\* C12: a failed background build leaves the call's normal return and its
\* primary engine as they were; the failure is kept in the pending handle
\* as a failure, never as a normally resolved result, until the caller
\* observes the handle, and the caller then gets that failure; the caller
\* gets a failure from the handle only when the background build failed.
C12_BackgroundFailureKeptForObserver ==
  /\ BackgroundFailed =>
       /\ PrimaryEngineIntact
       /\ future.state \in {"exception", "retrieved"}
       /\ (future.state = "exception") = (observed = "none")
       /\ (future.state = "retrieved") = (observed = "failure")
  /\ (observed = "failure") => BackgroundFailed
  /\ (observed = "engine") =>
       /\ future.engine # NullPtr
       /\ builds[future.engine].result = "engine"

\* C12 witness: the caller observed the pending handle after the call had
\* returned a primary engine, and got the failure of the background build
C12_Witness ==
  /\ BackgroundFailed
  /\ observed = "failure"
  /\ outcome = "returned"
  /\ PrimaryEngineIntact

\* a calibrator with a populated cache was supplied on an int8-capable
\* device, for a model that parses
PopulatedCacheRequested ==
  args.calibrator /\ device.hasInt8 /\ ~cacheAtEntry /\ Parsed

\* C13: with a calibrator whose cache is populated on an int8-capable
\* device, the call invokes one build step, on the calling thread, with
\* the int8 flag set and the calibrator attached; the engine it returns is
\* that build's, and no background build is scheduled.
C13_PopulatedCacheBuildsInt8Synchronously ==
  PopulatedCacheRequested =>
    /\ future = EmptyFuture
    /\ bgpc = "idle"
    /\ Len(builds) <= 1
    /\ \A k \in 1..Len(builds) :
         /\ builds[k].by = "main"
         /\ builds[k].cfg.int8
         /\ builds[k].cfg.calib
    /\ (pc = "done" /\ outcome = "returned") =>
         Len(builds) = 1 /\ trt_engine = 1

\* the capability `p` has been probed in this call
Probed(p) == \E k \in 1..Len(probes) : probes[k] = p

\* the calling thread is inside the primary compile step
InPrimaryCompile == pc \in {"build", "calibrate", "compile"}

\* C14: whenever the calling thread is at the primary compile step of a
\* call with a calibrator, the int8 capability has already been probed,
\* and on an int8-capable device every primary build was invoked with the
\* int8 flag set and the calibrator attached; the cache-empty check is
\* made only after the primary build has produced its engine.
C14_Int8ConfiguredBeforePrimaryBuild ==
  /\ (InPrimaryCompile /\ args.calibrator) => Probed("int8")
  /\ \A k \in 1..Len(builds) :
       (builds[k].by = "main" /\ args.calibrator /\ device.hasInt8) =>
         builds[k].cfg.int8 /\ builds[k].cfg.calib
  /\ (pc = "ret" \/ checked # "no") =>
       /\ Len(builds) >= 1
       /\ builds[1].by = "main"
       /\ builds[1].result = "engine"

\* locations of the calling thread whose statements read or write
\* trt_builder, trt_network or builder_config (lines 92, 120-149, 164-185)
MainTouchesBuildState ==
  pc \in {"parse", "batch", "fp16", "workspace", "debug", "int8", "build",
          "calibrate", "compile"}

\* the std::async task is running its build on the objects moved into it
TaskTouchesBuildState == bgpc \in {"start", "calibrate", "compile"}

\* C15: once the background build is scheduled, the builder, the network
\* and the configuration belong to the task, and the calling thread is at
\* no statement that reads or writes them: in no state do both threads
\* access that build state.
C15_BuildStateOwnedByTask ==
  /\ (bgpc # "idle" \/ future.state # "empty") => owner = "bg"
  /\ owner = "bg" => ~MainTouchesBuildState
  /\ ~(MainTouchesBuildState /\ TaskTouchesBuildState)

\* C15 witness: the task is inside its calibration loop while the calling
\* thread has not yet returned
C15_Witness ==
  /\ owner = "bg"
  /\ bgpc = "calibrate"
  /\ builds[Len(builds)].requests >= 1
  /\ pc = "ret"

\* locations of the calling thread whose statements call the calibrator or
\* run a build that may (lines 138-152, 175-187)
MainUsesCalibrator ==
  pc \in {"int8", "build", "calibrate", "compile", "check"}

\* the build steps that have not returned yet
RunningBuilds == {k \in 1..Len(builds) : builds[k].result = "running"}

\* C16: within one call at most one build step runs at a time; once the
\* background build is scheduled, every build of the calling thread has
\* returned and the calling thread is at no statement that calls the
\* calibrator, and setDone has not been called on it.
C16_CalibratorUsedByOneBuild ==
  /\ Cardinality(RunningBuilds) <= 1
  /\ (bgpc # "idle" \/ future.state # "empty") =>
       /\ ~MainUsesCalibrator
       /\ \A k \in RunningBuilds : builds[k].by = "bg"
       /\ ~cal.done

\* C16 witness: the task's build has asked the calibrator for a batch after
\* a primary build that used the same calibrator has returned its engine
C16_Witness ==
  /\ bgpc = "compile"
  /\ builds[Len(builds)].by = "bg"
  /\ builds[Len(builds)].calibrated
  /\ builds[Len(builds)].requests >= 1
  /\ builds[1].by = "main"
  /\ builds[1].calibrated
  /\ builds[1].result = "engine"

\* the build steps run by the std::async task
BackgroundBuilds == {k \in 1..Len(builds) : builds[k].by = "bg"}

\* line 152 / 187 found a calibrator in use whose cache was empty
CacheFoundEmpty == args.calibrator /\ device.hasInt8 /\ checked = "empty"

\* C17: on every successful call the returned pending handle is non-empty
\* exactly when a calibrator was supplied, the device supports int8 and
\* the cache was found empty by the check after the primary build; at
\* most one background build is scheduled per call, and none without a
\* non-empty handle.
C17_PendingHandleIffCalibrationNeeded ==
  /\ (pc = "done" /\ outcome = "returned") =>
       (future.state # "empty") = CacheFoundEmpty
  /\ (checked = "empty") => CacheFoundEmpty /\ PrimaryBuilt
  /\ (variant = "config" /\ checked # "no") =>
       (checked = "empty") = cacheAtEntry
  /\ Cardinality(BackgroundBuilds) <= 1
  /\ (BackgroundBuilds # {} \/ bgpc # "idle") => future.state # "empty"

\* C17 witness: a successful call returned a non-empty pending handle and
\* its one background build has run
C17_Witness ==
  /\ pc = "done"
  /\ outcome = "returned"
  /\ CacheFoundEmpty
  /\ future.state # "empty"
  /\ Cardinality(BackgroundBuilds) = 1

\* the configuration `c` carries the settings of steps 1-4 for the inputs
ConfiguredFromInputs(c) ==
  /\ c.maxBatch = args.max_batch_size
  /\ c.workspace = args.max_workspace_size
  /\ c.fp16 = (args.fp16_mode /\ device.hasFp16)
  /\ c.debug = args.debug_builder

\* C18: when the calling thread invokes the primary compile step, and in
\* every primary build it has invoked, the batch ceiling is
\* max_batch_size, the workspace budget is max_workspace_size, the
\* half-precision flag is set iff fp16_mode is true and the device
\* supports it, and the debug flag is set iff debug_builder is true; the
\* half-precision capability is probed at most once, and only when
\* fp16_mode is true.
C18_PrimaryBuildConfiguredFromInputs ==
  /\ pc = "build" => ConfiguredFromInputs(cfg)
  /\ \A k \in 1..Len(builds) :
       builds[k].by = "main" => ConfiguredFromInputs(builds[k].cfg)
  /\ Probed("fp16") => args.fp16_mode
  /\ Cardinality({k \in 1..Len(probes) : probes[k] = "fp16"}) <= 1

\* C18 witness: a primary build was invoked with no precision mode
\* requested and the debug flag asked for
C18_Witness ==
  /\ Len(builds) >= 1
  /\ builds[1].by = "main"
  /\ ~args.fp16_mode
  /\ ~args.calibrator
  /\ args.debug_builder
  /\ builds[1].cfg.debug
  /\ builds[1].cfg.workspace = args.max_workspace_size
  /\ builds[1].cfg.maxBatch = args.max_batch_size

\* the lines written for record `r`, in the order they were written
LinesOf(r) ==
  LET OfRecord(l) == l.rec = r IN SelectSeq(cerr, OfRecord)

\* the kinds of lines a record with node index `node` is to get, in order
ExpectedKinds(node) ==
  (IF NodeKnown(node) THEN <<"node">> ELSE <<>>)
  \o (IF NodeKnown(node) /\ DumpsNode THEN <<"dump">> ELSE <<>>)
  \o <<"error">>

\* C19: every record of a rejected parse gets its ERROR line, as the last
\* line of the record; before it come the node header iff the record's
\* node index is known, and after the header the node dump iff moreover
\* the verbosity is at least kINFO; the header names the record's node and
\* shows a first output name iff that node has one.
C19_RecordLines ==
  /\ \A r \in 0..(i - 1) :
       LET ls == LinesOf(r)
       IN /\ ls # <<>>
          /\ [k \in 1..Len(ls) |-> ls[k].kind]
               = ExpectedKinds(ls[Len(ls)].node)
          /\ \A k \in 1..Len(ls) :
               /\ ls[k].node = ls[Len(ls)].node
               /\ ls[k].kind = "node" =>
                    /\ InRange(ls[k].node)
                    /\ ls[k].out = HasOutput(ls[k].node)
  /\ (env.backendOk = {FALSE} /\ pc = "done") => i = nerror

\* the call made in the other variant has ended, its task included
OtherVariantEnded ==
  callNo = 3 /\ first.valid /\ pc = "done" /\ bgpc \in {"idle", "finished"}

\* C20: the same call (same arguments, same device, same model, calibrator
\* in the same state) made in the two variants invokes the same number of
\* build steps, by the same threads, with the same flags and calibrator
\* attachment in effect at each, leaves the calibrator marked done or not
\* alike, and ends alike with the same pending-handle emptiness.
C20_VariantsEquivalent ==
  OtherVariantEnded =>
    /\ Len(builds) = Len(first.builds)
    /\ \A k \in 1..Len(builds) :
         k <= Len(first.builds) =>
           /\ builds[k].by = first.builds[k].by
           /\ builds[k].cfg = first.builds[k].cfg
    /\ cal.done = first.done
    /\ outcome = first.outcome
    /\ (future.state = "empty") = first.pendingEmpty

====
